---- MODULE Spec2Model ----
(***************************************************************************)
(* Model of routes/analytics.js: three read-only admin endpoints           *)
(* (/summary, /orders-chart, /orders) over the Order collection.           *)
(*                                                                         *)
(* Each handler is an async function; every `await Order.<query>` is one   *)
(* atomic step of the model (the store executes the query, the handler     *)
(* resumes with the result or with the thrown error).  Between two steps   *)
(* of a request other clients of the store may insert or update orders,    *)
(* the clock may advance and another request may take a step.              *)
(*                                                                         *)
(* Time is counted in ticks, DayTicks ticks to the day, tick 0 being the   *)
(* epoch origin new Date(0).  Order totals are IEEE-754 doubles, kept as   *)
(* an exact mantissa and a binary exponent, so that $sum, toFixed(2) and   *)
(* parseFloat round as the program does.                                   *)
(***************************************************************************)
EXTENDS Integers, Sequences, FiniteSets

(***************************************************************************)
(* Natural numbers of any size: little-endian sequences of limbs in        *)
(* 0..LimbBase-1 with no leading zero limb, <<>> being 0.  (TLC's integers *)
(* are 32 bits wide, a double's mantissa is 53.)                           *)
(***************************************************************************)
LimbBits == 15

LimbBase == 2^LimbBits

RECURSIVE BTrim(_)
BTrim(b) == IF b = <<>> THEN <<>>
            ELSE IF b[Len(b)] = 0 THEN BTrim(SubSeq(b, 1, Len(b) - 1))
            ELSE b

RECURSIVE BFromInt(_)
BFromInt(n) == IF n = 0 THEN <<>>
               ELSE <<n % LimbBase>> \o BFromInt(n \div LimbBase)

RECURSIVE BToInt(_)
BToInt(b) == IF b = <<>> THEN 0 ELSE b[1] + LimbBase * BToInt(Tail(b))

RECURSIVE BAddC(_, _, _)
BAddC(a, b, c) ==
    IF a = <<>> /\ b = <<>> THEN (IF c = 0 THEN <<>> ELSE <<c>>)
    ELSE LET x == IF a = <<>> THEN 0 ELSE a[1]
             y == IF b = <<>> THEN 0 ELSE b[1]
             s == x + y + c
         IN  <<s % LimbBase>> \o BAddC(IF a = <<>> THEN <<>> ELSE Tail(a),
                                       IF b = <<>> THEN <<>> ELSE Tail(b),
                                       s \div LimbBase)

BAdd(a, b) == BAddC(a, b, 0)

\* a * c for a small factor 0 <= c <= LimbBase.
RECURSIVE BMulC(_, _, _)
BMulC(a, c, carry) ==
    IF a = <<>> THEN BFromInt(carry)
    ELSE LET p == a[1] * c + carry
         IN  <<p % LimbBase>> \o BMulC(Tail(a), c, p \div LimbBase)

BMulSmall(a, c) == BTrim(BMulC(a, c, 0))

\* Long division of a by the small divisor 0 < d <= LimbBase, most
\* significant limb first: [q |-> quotient, r |-> remainder].
RECURSIVE BDivStep(_, _, _, _, _)
BDivStep(a, d, i, q, r) ==
    IF i = 0 THEN [q |-> BTrim(q), r |-> r]
    ELSE LET cur == r * LimbBase + a[i]
         IN  BDivStep(a, d, i - 1, <<cur \div d>> \o q, cur % d)

BDivSmall(a, d) == BDivStep(a, d, Len(a), <<>>, 0)

BZeros(k) == [i \in 1..k |-> 0]

\* a * 2^k
BShl(a, k) == IF a = <<>> THEN <<>>
              ELSE BZeros(k \div LimbBits) \o BMulSmall(a, 2^(k % LimbBits))

\* a \div 2^k
BShr(a, k) ==
    IF k \div LimbBits >= Len(a) THEN <<>>
    ELSE BDivSmall(SubSeq(a, (k \div LimbBits) + 1, Len(a)), 2^(k % LimbBits)).q

\* a % 2^k
BLow(a, k) ==
    LET w == k \div LimbBits
    IN  IF w >= Len(a) THEN a
        ELSE BTrim(SubSeq(a, 1, w) \o <<a[w + 1] % 2^(k % LimbBits)>>)

\* The number of bits of a: 0 for 0.
BBitLen(a) ==
    IF a = <<>> THEN 0
    ELSE LimbBits * (Len(a) - 1)
           + (CHOOSE n \in 1..LimbBits : 2^(n - 1) <= a[Len(a)] /\ a[Len(a)] < 2^n)

\* The number of zero bits a non-zero a ends with.
BTrailingZeros(a) ==
    LET i == CHOOSE j \in 1..Len(a) : a[j] # 0 /\ \A l \in 1..(j - 1) : a[l] = 0
        t == CHOOSE s \in 0..(LimbBits - 1) : a[i] % 2^s = 0 /\ a[i] % 2^(s + 1) # 0
    IN  LimbBits * (i - 1) + t

\* -1, 0 or 1 as a < b, a = b or a > b.
RECURSIVE BCmp(_, _)
BCmp(a, b) ==
    IF Len(a) # Len(b) THEN (IF Len(a) < Len(b) THEN -1 ELSE 1)
    ELSE IF a = <<>> THEN 0
    ELSE LET n == Len(a)
         IN  IF a[n] # b[n] THEN (IF a[n] < b[n] THEN -1 ELSE 1)
             ELSE BCmp(BTrim(SubSeq(a, 1, n - 1)), BTrim(SubSeq(b, 1, n - 1)))

BOdd(a) == a # <<>> /\ a[1] % 2 = 1

(***************************************************************************)
(* Non-negative finite doubles: [m, e] stands for m * 2^e, with m odd (or  *)
(* m = 0 and e = 0), so that equal numbers are equal records.  Order       *)
(* totals and their sums are far from the subnormal and overflow ranges.   *)
(***************************************************************************)
MantissaBits == 53

DCanon(m, e) ==
    IF m = <<>> THEN [m |-> <<>>, e |-> 0]
    ELSE LET tz == BTrailingZeros(m)
         IN  [m |-> BShr(m, tz), e |-> e + tz]

\* The double nearest to s * 2^e (+ a non-zero amount below the last bit of
\* s when sticky), ties to even: IEEE-754 roundTiesToEven.
DRound(s, e, sticky) ==
    IF BBitLen(s) <= MantissaBits THEN DCanon(s, e)
    ELSE LET d    == BBitLen(s) - MantissaBits
             q    == BShr(s, d)
             rem  == BLow(s, d)
             half == BShl(<<1>>, d - 1)
             c    == BCmp(rem, half)
             up   == \/ c = 1
                     \/ c = 0 /\ sticky
                     \/ c = 0 /\ ~sticky /\ BOdd(q)
         IN  DCanon(IF up THEN BAdd(q, <<1>>) ELSE q, e + d)

\* a + b of two doubles.
DAdd(a, b) ==
    LET e == IF a.e < b.e THEN a.e ELSE b.e
    IN  DRound(BAdd(BShl(a.m, a.e - e), BShl(b.m, b.e - e)), e, FALSE)

DZero == [m |-> <<>>, e |-> 0]

DFromInt(n) == DCanon(BFromInt(n), 0)

\* A double from its hexadecimal notation 0x1.<hex digits>p<exp>.
RECURSIVE HexValue(_, _)
HexValue(h, acc) ==
    IF h = <<>> THEN acc
    ELSE HexValue(Tail(h), BAdd(BMulSmall(acc, 16), BFromInt(h[1])))

DFromHex(h, exp) == DCanon(HexValue(h, <<1>>), exp - 4 * Len(h))

\* The digits of x cut after the second decimal, not rounded.
toFixedTruncating(x) ==
    LET n100 == BMulSmall(x.m, 100)
    IN  IF x.e >= 0 THEN BToInt(BShl(n100, x.e)) ELSE BToInt(BShr(n100, -x.e))

(***************************************************************************)
(* Number.prototype.toFixed(2): the digits of the integer n for which      *)
(* n / 100 - x is as close to zero as possible, the larger n of two.  The  *)
(* string "I.FF" is kept as n, its value in hundredths.                    *)
(***************************************************************************)
toFixed(x) ==
    LET n100 == BMulSmall(x.m, 100)
    IN  IF x.e >= 0 THEN BToInt(BShl(n100, x.e))
        ELSE LET k    == -x.e
                 q    == BShr(n100, k)
                 rem  == BLow(n100, k)
                 half == BShl(<<1>>, k - 1)
             IN  BToInt(IF BCmp(rem, half) >= 0 THEN BAdd(q, <<1>>) ELSE q)

(***************************************************************************)
(* parseFloat of the string toFixed(2) made (n hundredths): the double     *)
(* nearest to n / 100.                                                     *)
(***************************************************************************)
GuardBits == 64

parseFloat(n) ==
    LET d == BDivSmall(BShl(BFromInt(n), GuardBits), 100)
    IN  DRound(d.q, -GuardBits, d.r # 0)

(***************************************************************************)
(* JavaScript numbers that are not money: an integer, NaN or Infinity.     *)
(***************************************************************************)
Num(n) == [k |-> "int", v |-> n]

NaN == [k |-> "NaN", v |-> 0]

Infinity == [k |-> "Infinity", v |-> 0]

JsSub(a, b) == IF a.k = "int" /\ b.k = "int" THEN Num(a.v - b.v) ELSE NaN

JsMul(a, b) == IF a.k = "int" /\ b.k = "int" THEN Num(a.v * b.v) ELSE NaN

\* Math.ceil(a / b) for a count a >= 0: 0 / 0 and a / NaN are NaN, a / 0 is
\* Infinity for a > 0; -0 is written 0 (as JSON.stringify writes it).
MathCeilDiv(a, b) ==
    IF b.k # "int" THEN NaN
    ELSE IF b.v = 0 THEN (IF a = 0 THEN NaN ELSE Infinity)
    ELSE IF b.v > 0 THEN Num((a + b.v - 1) \div b.v)
    ELSE Num(-(a \div (-b.v)))

(***************************************************************************)
(* Query-string values are strings, kept as sequences of characters; a     *)
(* parameter that is absent is <<>>, one that is present is <<value>>.     *)
(* A value after destructuring is the string, or the default given there.  *)
(***************************************************************************)
JsString(s) == [t |-> "string", s |-> s, n |-> 0]

JsNumber(n) == [t |-> "number", s |-> <<>>, n |-> n]

DigitChars == <<"0", "1", "2", "3", "4", "5", "6", "7", "8", "9">>

\* The value of a character as a digit, or 99 when it is none.
DigitValue(c) ==
    IF \E d \in 1..10 : DigitChars[d] = c
    THEN (CHOOSE d \in 1..10 : DigitChars[d] = c) - 1
    ELSE 99

\* Number::toString of an integer.
RECURSIVE NatToChars(_)
NatToChars(n) == IF n < 10 THEN <<DigitChars[n + 1]>>
                 ELSE NatToChars(n \div 10) \o <<DigitChars[(n % 10) + 1]>>

JsToString(v) == IF v.t = "string" THEN v.s
               ELSE IF v.n < 0 THEN <<"-">> \o NatToChars(-v.n)
               ELSE NatToChars(v.n)

RECURSIVE StripLeadingSpace(_)
StripLeadingSpace(s) == IF s # <<>> /\ s[1] = " " THEN StripLeadingSpace(Tail(s))
                        ELSE s

\* The longest prefix of decimal digits of s, as [any, v].
RECURSIVE ParseDigits(_, _, _)
ParseDigits(s, any, acc) ==
    IF s = <<>> \/ DigitValue(s[1]) = 99 THEN [any |-> any, v |-> acc]
    ELSE ParseDigits(Tail(s), TRUE, 10 * acc + DigitValue(s[1]))

\* parseInt(v), radix 10: white space, a sign, then digits up to the first
\* character that is none; NaN when there is no digit.
parseInt(v) ==
    LET s    == StripLeadingSpace(JsToString(v))
        neg  == s # <<>> /\ s[1] = "-"
        body == IF s # <<>> /\ s[1] \in {"-", "+"} THEN Tail(s) ELSE s
        d    == ParseDigits(body, FALSE, 0)
    IN  IF ~d.any THEN NaN ELSE Num(IF neg THEN -d.v ELSE d.v)

\* const { name = default } = req.query
Destructure(opt, default) == IF opt = <<>> THEN default ELSE opt[1]

(***************************************************************************)
(* Time.  A Date is a number of ticks since the epoch origin.              *)
(***************************************************************************)
DayTicks == 2

\* The offset of the server's local time from UTC, in ticks.
LocalOffset == 1

\* getDateRange whose last branch gives the current instant.
getDateRangeFromNow(range, clock) ==
    IF range = "today" THEN clock - ((clock + LocalOffset) % DayTicks)
    ELSE IF range = "7days" THEN clock - 7 * DayTicks
    ELSE clock

\* getDateRange(range), called when the clock shows `clock`.
getDateRange(range, clock) ==
    IF range = "today"
      THEN clock - ((clock + LocalOffset) % DayTicks)     \* setHours(0,0,0,0)
    ELSE IF range = "7days"
      THEN clock - 7 * DayTicks                           \* setDate(getDate() - 7)
    ELSE 0                                                \* new Date(0)

IsLeapYear(y) == (y % 4 = 0 /\ y % 100 # 0) \/ y % 400 = 0

DaysInYear(y) == IF IsLeapYear(y) THEN 366 ELSE 365

DaysInMonth(y, m) ==
    IF m = 2 THEN (IF IsLeapYear(y) THEN 29 ELSE 28)
    ELSE IF m \in {4, 6, 9, 11} THEN 30 ELSE 31

RECURSIVE YearOfDay(_, _)
YearOfDay(d, y) == IF d < DaysInYear(y) THEN [y |-> y, d |-> d]
                   ELSE YearOfDay(d - DaysInYear(y), y + 1)

RECURSIVE MonthOfDay(_, _, _)
MonthOfDay(d, y, m) == IF d < DaysInMonth(y, m) THEN [m |-> m, d |-> d + 1]
                       ELSE MonthOfDay(d - DaysInMonth(y, m), y, m + 1)

\* n in w decimal digits, zero-padded.
RECURSIVE Pad(_, _)
Pad(n, w) == IF w = 0 THEN <<>>
             ELSE Pad(n \div 10, w - 1) \o <<DigitChars[(n % 10) + 1]>>

\* $dateToString: { format: "%Y-%m-%d", date: t }, in UTC.
dateToString(t) ==
    LET yd == YearOfDay(t \div DayTicks, 1970)
        md == MonthOfDay(yd.d, yd.y, 1)
    IN  Pad(yd.y, 4) \o <<"-">> \o Pad(md.m, 2) \o <<"-">> \o Pad(md.d, 2)

\* The code unit of a character of a date key.
CharCode(c) == IF c = "-" THEN 45 ELSE 48 + DigitValue(c)

\* a < b of two strings, as the store's $sort compares them.
RECURSIVE StringLess(_, _)
StringLess(a, b) ==
    IF b = <<>> THEN FALSE
    ELSE IF a = <<>> THEN TRUE
    ELSE IF a[1] # b[1] THEN CharCode(a[1]) < CharCode(b[1])
    ELSE StringLess(Tail(a), Tail(b))

(***************************************************************************)
(* The state: the Order and User collections, the wall clock, and the      *)
(* requests in flight.  A request's record holds the handler's position    *)
(* (pc), its inputs, its local variables, the response it sent, and        *)
(* three counters: nq, the queries it issued to the Order collection,      *)
(* nfail, those of them that failed, and nres, the responses it sent.      *)
(***************************************************************************)
VARIABLES orders, users, now, req, writes

vars == <<orders, users, now, req, writes>>

UserIds == {"u1", "u2"}

Users == {[_id |-> "u1", name |-> "Ann", email |-> "ann@example.com", role |-> "admin"],
          [_id |-> "u2", name |-> "Bob", email |-> "bob@example.com", role |-> "customer"]}

Order(id, user, total, status, createdAt) ==
    [_id |-> id, user_id |-> user, total |-> total, status |-> status,
     createdAt |-> createdAt]

NoBody == [message |-> "", error |-> ""]

Idle == [pc |-> "idle", ep |-> "", role |-> "",
         query |-> [dateRange |-> <<>>, page |-> <<>>, limit |-> <<>>, status |-> <<>>],
         startDate |-> 0, totalOrders |-> 0, totalRevenue |-> DZero,
         activeUsers |-> {}, orders |-> <<>>,
         res |-> [status |-> 0, body |-> NoBody], nq |-> 0, nfail |-> 0, nres |-> 0]

(***************************************************************************)
(* The store's queries, each evaluated on the collection as it is when the *)
(* query runs.                                                             *)
(***************************************************************************)
\* { createdAt: { $gte: startDate } }, with status: <status> when given.
Filter(startDate, status) == [startDate |-> startDate, status |-> status]

Matches(o, filter) ==
    /\ o.createdAt >= filter.startDate
    /\ filter.status = <<>> \/ o.status = filter.status[1]

Matching(store, filter) == {o \in store : Matches(o, filter)}

\* The orders in which the store may hand a set of documents to a stage.
Orderings(S) ==
    {f \in [1..Cardinality(S) -> S] :
        \A i, j \in 1..Cardinality(S) : i # j => f[i] # f[j]}

countDocuments(store, filter) == Cardinality(Matching(store, filter))

\* { $sum: "$total" } over documents in the order they reach the stage.
RECURSIVE SumTotals(_)
SumTotals(docs) ==
    IF docs = <<>> THEN DZero
    ELSE DAdd(SumTotals(SubSeq(docs, 1, Len(docs) - 1)), docs[Len(docs)].total)

\* aggregate([{ $match }, { $group: { _id: null, total: { $sum: "$total" } } }])
\* on the matching documents in the order docs: no group when none matches.
aggregateTotal(docs) ==
    IF docs = <<>> THEN <<>> ELSE <<[total |-> SumTotals(docs)]>>

\* distinct("user_id", filter)
distinct(store, filter) == {o.user_id : o \in Matching(store, filter)}

\* aggregate([{ $match }, { $group: { _id: "$status", count: { $sum: 1 } } }])
aggregateStatus(store, filter) ==
    {[_id |-> s, count |-> Cardinality({o \in Matching(store, filter) : o.status = s})] :
        s \in {o.status : o \in Matching(store, filter)}}

\* statusBreakdown.find((s) => s._id === status)?.count || 0
StatusCount(statusBreakdown, status) ==
    IF \E s \in statusBreakdown : s._id = status
    THEN (CHOOSE s \in statusBreakdown : s._id = status).count
    ELSE 0

\* { $group: { _id: { $dateToString }, count: { $sum: 1 }, revenue: { $sum: "$total" } } }
GroupByDate(docs) ==
    {[_id |-> key,
      count |-> Len(SelectSeq(docs, LAMBDA o : dateToString(o.createdAt) = key)),
      revenue |-> SumTotals(SelectSeq(docs, LAMBDA o : dateToString(o.createdAt) = key))] :
        key \in {dateToString(docs[i].createdAt) : i \in 1..Len(docs)}}

\* { $sort: { _id: -1 } }
RECURSIVE SortByIdDescending(_)
SortByIdDescending(groups) ==
    IF groups = {} THEN <<>>
    ELSE LET first == CHOOSE g \in groups :
                          \A h \in groups : h = g \/ StringLess(h._id, g._id)
         IN  <<first>> \o SortByIdDescending(groups \ {first})

\* { $sort: { _id: 1 } }
RECURSIVE SortById(_)
SortById(groups) ==
    IF groups = {} THEN <<>>
    ELSE LET first == CHOOSE g \in groups :
                          \A h \in groups : h = g \/ StringLess(g._id, h._id)
         IN  <<first>> \o SortById(groups \ {first})

aggregateByDate(docs) == SortById(GroupByDate(docs))

\* ordersOverTime.map((item) => ({ date, orders, revenue }))
ChartData(ordersOverTime) ==
    [i \in 1..Len(ordersOverTime) |->
        [date |-> ordersOverTime[i]._id,
         orders |-> ordersOverTime[i].count,
         revenue |-> parseFloat(toFixed(ordersOverTime[i].revenue))]]

\* .sort({ createdAt: -1 }): any order of the documents that is descending
\* in createdAt; documents of equal createdAt come in an order the store
\* chooses per query.
SortedDescending(S) ==
    {f \in Orderings(S) :
        \A i \in 1..(Cardinality(S) - 1) : f[i].createdAt >= f[i + 1].createdAt}

\* .skip(n).limit(m) of the cursor: limit 0 is no limit, a negative limit
\* -m gives m documents.
SkipLimit(docs, skip, limit) ==
    LET rest == SubSeq(docs, skip + 1, Len(docs))
        m    == IF limit < 0 THEN -limit ELSE limit
    IN  IF m = 0 THEN rest ELSE SubSeq(rest, 1, IF m < Len(rest) THEN m ELSE Len(rest))

\* .populate("user_id", "name email")
populate(o, userStore) ==
    LET u == CHOOSE x \in userStore : x._id = o.user_id
    IN  [o EXCEPT !.user_id = [_id |-> u._id, name |-> u.name, email |-> u.email]]

\* What find(query).sort().skip(skip).limit(limit).populate() may give:
\* documents, or an error.  The store rejects a negative skip; what it does
\* with a NaN skip or limit depends on the driver and server (it is rejected,
\* or read as 0).
NaNAsZero(x) == IF x.k = "int" THEN x.v ELSE 0

find(store, userStore, filter, skip, limit) ==
    LET bad  == skip.k # "int" \/ limit.k # "int"
        s    == NaNAsZero(skip)
        l    == NaNAsZero(limit)
        docs == {[ok |-> TRUE, error |-> "",
                  docs |-> [i \in 1..Len(SkipLimit(f, s, l)) |->
                               populate(SkipLimit(f, s, l)[i], userStore)]] :
                    f \in SortedDescending(Matching(store, filter))}
    IN  IF s < 0
          THEN {[ok |-> FALSE, error |-> "Skip value must be non-negative", docs |-> <<>>]}
        ELSE IF bad
          THEN docs \cup {[ok |-> FALSE, error |-> "Failed to parse", docs |-> <<>>]}
        ELSE docs

(***************************************************************************)
(* The handlers.                                                           *)
(***************************************************************************)
\* What a query to the store may end in, apart from its result: the errors
\* of a store that cannot be reached or cannot run the query.
StoreErrors == {"store unavailable"}

\* Request rq has issued one more query, which succeeded or failed.
Issued(rq) == [rq EXCEPT !.nq = @ + 1]

Failed(rq) == [rq EXCEPT !.nq = @ + 1, !.nfail = @ + 1]

\* res.status(status).json(body), which ends the handler: its local
\* variables are gone.
Respond(rq, status, body) ==
    [Idle EXCEPT !.pc = "done", !.ep = rq.ep, !.role = rq.role, !.query = rq.query,
                 !.res = [status |-> status, body |-> body],
                 !.nq = rq.nq, !.nfail = rq.nfail, !.nres = rq.nres + 1]

\* A catch that sends the error and lets the handler go on.
CatchAndContinue(rq, error) ==
    [rq EXCEPT !.res = [status |-> 500,
                        body |-> [message |-> "Server error", error |-> error]],
               !.nres = @ + 1]

\* catch (error) { res.status(500).json({ message, error: error.message }) }
Catch(rq, error) == Respond(rq, 500, [message |-> "Server error", error |-> error])

\* The role check made after the first query instead of before it.
ForbiddenAfterQuery(rq) ==
    Respond(Issued(rq), 403, [message |-> "Admin access required"])

Forbidden(rq) == Respond(rq, 403, [message |-> "Admin access required"])

\* The first await of each handler.
FirstQuery(ep) == CASE ep = "summary" -> "summary_count"
                    [] ep = "orders-chart" -> "chart_aggregate"
                    [] ep = "orders" -> "orders_find"

\* Receive with startDate declared outside the handler: every request in
\* flight sees the value the last one computed.
ReceiveSharedStartDate(r, ep, role, query) ==
    /\ req[r].pc \in {"idle", "done"}
    /\ LET rq == [Idle EXCEPT !.ep = ep, !.role = role, !.query = query]
           sd == getDateRange(Destructure(query.dateRange, "7days"), now)
       IN  req' = [s \in DOMAIN req |->
                     IF s # r
                       THEN (IF req[s].pc \in {"idle", "done"} THEN req[s]
                             ELSE [req[s] EXCEPT !.startDate = sd])
                     ELSE IF role # "admin" THEN Forbidden(rq)
                     ELSE [rq EXCEPT !.pc = FirstQuery(ep), !.startDate = sd]]
    /\ UNCHANGED <<orders, users, now, writes>>

\* A request arrives (authMiddleware has set req.user): the role check,
\* then the destructuring of req.query and getDateRange.
Receive(r, ep, role, query) ==
    /\ req[r].pc \in {"idle", "done"}
    /\ LET rq == [Idle EXCEPT !.ep = ep, !.role = role, !.query = query]
       IN  req' = [req EXCEPT ![r] =
                     IF role # "admin" THEN Forbidden(rq)
                     ELSE [rq EXCEPT
                             !.pc = FirstQuery(ep),
                             !.startDate =
                                getDateRange(Destructure(query.dateRange, "7days"), now)]]
    /\ UNCHANGED <<orders, users, now, writes>>

\* const totalOrders = await Order.countDocuments({ createdAt: { $gte } })
SummaryCount(r) ==
    /\ req[r].pc = "summary_count"
    /\ \/ \E e \in StoreErrors : req' = [req EXCEPT ![r] = Catch(Failed(@), e)]
       \/ req' = [req EXCEPT ![r] =
                    [Issued(@) EXCEPT
                       !.pc = "summary_revenue",
                       !.totalOrders =
                          countDocuments(orders, Filter(req[r].startDate, <<>>))]]
    /\ UNCHANGED <<orders, users, now, writes>>

\* const revenueResult = await Order.aggregate([...]);
\* const totalRevenue = revenueResult.length > 0 ? revenueResult[0].total : 0
SummaryRevenue(r) ==
    /\ req[r].pc = "summary_revenue"
    /\ \/ \E e \in StoreErrors : req' = [req EXCEPT ![r] = Catch(Failed(@), e)]
       \/ \E docs \in Orderings(Matching(orders, Filter(req[r].startDate, <<>>))) :
            LET revenueResult == aggregateTotal(docs)
            IN  req' = [req EXCEPT ![r] =
                          [Issued(@) EXCEPT
                             !.pc = "summary_users",
                             !.totalRevenue =
                                IF Len(revenueResult) > 0 THEN revenueResult[1].total
                                ELSE DZero]]
    /\ UNCHANGED <<orders, users, now, writes>>

\* const activeUsers = await Order.distinct("user_id", { createdAt: { $gte } })
SummaryUsers(r) ==
    /\ req[r].pc = "summary_users"
    /\ \/ \E e \in StoreErrors : req' = [req EXCEPT ![r] = Catch(Failed(@), e)]
       \/ req' = [req EXCEPT ![r] =
                    [Issued(@) EXCEPT
                       !.pc = "summary_status",
                       !.activeUsers =
                          distinct(orders, Filter(req[r].startDate, <<>>))]]
    /\ UNCHANGED <<orders, users, now, writes>>

\* The body res.json sends from /summary.
SummaryBody(rq, statusBreakdown) ==
    [summary |-> [totalOrders |-> rq.totalOrders,
                  totalRevenue |-> parseFloat(toFixed(rq.totalRevenue)),
                  activeUsers |-> Cardinality(rq.activeUsers)],
     orderStatus |-> [completed |-> StatusCount(statusBreakdown, "Delivered"),
                      cancelled |-> 0,
                      placed |-> StatusCount(statusBreakdown, "Placed"),
                      preparing |-> StatusCount(statusBreakdown, "Preparing")]]

\* const statusBreakdown = await Order.aggregate([...]); ...; res.json({...})
SummaryStatus(r) ==
    /\ req[r].pc = "summary_status"
    /\ \/ \E e \in StoreErrors : req' = [req EXCEPT ![r] = Catch(Failed(@), e)]
       \/ req' = [req EXCEPT ![r] =
                    Respond(Issued(@), 200,
                            SummaryBody(@, aggregateStatus(orders,
                                               Filter(req[r].startDate, <<>>))))]
    /\ UNCHANGED <<orders, users, now, writes>>

\* const ordersOverTime = await Order.aggregate([...]); res.json({ chartData })
ChartAggregate(r) ==
    /\ req[r].pc = "chart_aggregate"
    /\ \/ \E e \in StoreErrors : req' = [req EXCEPT ![r] = Catch(Failed(@), e)]
       \/ \E docs \in Orderings(Matching(orders, Filter(req[r].startDate, <<>>))) :
            req' = [req EXCEPT ![r] =
                      Respond(Issued(@), 200,
                              [chartData |-> ChartData(aggregateByDate(docs))])]
    /\ UNCHANGED <<orders, users, now, writes>>

\* const { page = 1, limit = 10, status = "all" } = req.query
Page(rq) == Destructure(rq.query.page, JsNumber(1))

Limit(rq) == Destructure(rq.query.limit, JsNumber(10))

Status(rq) == Destructure(rq.query.status, "all")

\* const skip = (parseInt(page) - 1) * parseInt(limit)
Skip(rq) == JsMul(JsSub(parseInt(Page(rq)), Num(1)), parseInt(Limit(rq)))

\* const query = { createdAt: { $gte: startDate } };
\* if (status !== "all") query.status = status
Query(rq) == Filter(rq.startDate, IF Status(rq) # "all" THEN <<Status(rq)>> ELSE <<>>)

\* const orders = await Order.find(query).sort().skip().limit().populate()
OrdersFind(r) ==
    /\ req[r].pc = "orders_find"
    /\ \/ \E e \in StoreErrors : req' = [req EXCEPT ![r] = Catch(Failed(@), e)]
       \/ \E found \in find(orders, users, Query(req[r]), Skip(req[r]),
                            parseInt(Limit(req[r]))) :
            req' = [req EXCEPT ![r] =
                      IF found.ok
                      THEN [Issued(@) EXCEPT !.pc = "orders_count",
                                             !.orders = found.docs]
                      ELSE Catch(Failed(@), found.error)]
    /\ UNCHANGED <<orders, users, now, writes>>

\* The body res.json sends from /orders.
OrdersBody(rq, totalOrders) ==
    [orders |-> rq.orders,
     pagination |-> [currentPage |-> parseInt(Page(rq)),
                     totalPages |-> MathCeilDiv(totalOrders, parseInt(Limit(rq))),
                     totalOrders |-> totalOrders,
                     limit |-> parseInt(Limit(rq))]]

\* const totalOrders = await Order.countDocuments(query); res.json({...})
OrdersCount(r) ==
    /\ req[r].pc = "orders_count"
    /\ \/ \E e \in StoreErrors : req' = [req EXCEPT ![r] = Catch(Failed(@), e)]
       \/ req' = [req EXCEPT ![r] =
                    Respond(Issued(@), 200,
                            OrdersBody(@, countDocuments(orders, Query(req[r]))))]
    /\ UNCHANGED <<orders, users, now, writes>>

(***************************************************************************)
(* The other clients of the store (the ordering routes of the application) *)
(* and the clock.  writes counts what the other clients wrote.             *)
(***************************************************************************)
MaxInitialOrders == 3

MaxWrites == 1

MaxTicks == 1

\* The instants at which the clock may start: noon (UTC) of 3 February 1970.
StartTimes == {67}

\* The next order's _id: one more than the largest in the collection.
NextId ==
    IF orders = {} THEN 1
    ELSE 1 + (CHOOSE n \in {o._id : o \in orders} : \A o \in orders : o._id <= n)

\* A customer places an order.
PlaceOrder(user, total) ==
    /\ writes < MaxWrites
    /\ orders' = orders \cup {Order(NextId, user, total, "Placed", now)}
    /\ writes' = writes + 1
    /\ UNCHANGED <<users, now, req>>

\* The kitchen or the courier moves an order on.
AdvanceStatus(o) ==
    /\ writes < MaxWrites
    /\ o.status \in {"Placed", "Preparing"}
    /\ orders' = (orders \ {o}) \cup
                   {[o EXCEPT !.status = IF @ = "Placed" THEN "Preparing" ELSE "Delivered"]}
    /\ writes' = writes + 1
    /\ UNCHANGED <<users, now, req>>

\* Time passes.
Tick ==
    /\ \E t \in StartTimes : now < t + MaxTicks
    /\ now' = now + 1
    /\ UNCHANGED <<orders, users, req, writes>>

InitWith(pool, slots) ==
    /\ orders \in {S \in SUBSET pool : Cardinality(S) <= MaxInitialOrders}
    /\ users = Users
    /\ now \in StartTimes
    /\ req = [r \in slots |-> Idle]
    /\ writes = 0

Roles == {"admin", "customer"}

NoQuery == [dateRange |-> <<>>, page |-> <<>>, limit |-> <<>>, status |-> <<>>]

D5 == DFromInt(5)

(***************************************************************************)
(* Spec: the three endpoints, one request at a time, beside the other      *)
(* clients of the store.                                                   *)
(***************************************************************************)
\* Orders of the past: of the first day of 1970, of 31 January and of
\* 1 February (two of the same instant), the clock starting on 3 February.
Pool == {Order(1, "u1", D5, "Delivered", 0),
         Order(2, "u2", D5, "Placed", 61),
         Order(3, "u1", D5, "Preparing", 62),
         Order(4, "u2", D5, "Cancelled", 62)}

\* The requests a client may send.
Incoming ==
    {[ep |-> ep, role |-> role, query |-> [NoQuery EXCEPT !.dateRange = d]] :
        ep \in {"summary", "orders-chart"}, role \in Roles,
        d \in {<<>>, <<"today">>, <<"7days">>, <<"30days">>}}
    \cup
    {[ep |-> "orders", role |-> role, query |-> [NoQuery EXCEPT !.dateRange = d]] :
        role \in Roles, d \in {<<>>, <<"">>}}

Init == InitWith(Pool, {"r1"})

Next ==
    \/ \E m \in Incoming : Receive("r1", m.ep, m.role, m.query)
    \/ SummaryCount("r1")
    \/ SummaryRevenue("r1")
    \/ SummaryUsers("r1")
    \/ SummaryStatus("r1")
    \/ ChartAggregate("r1")
    \/ OrdersFind("r1")
    \/ OrdersCount("r1")
    \/ \E u \in UserIds : PlaceOrder(u, D5)
    \/ \E o \in orders : AdvanceStatus(o)
    \/ Tick

Spec == Init /\ [][Next]_vars

(***************************************************************************)
(* SpecOrders: /orders with its paging and status parameters.              *)
(***************************************************************************)
Chars(n) == <<JsString(NatToChars(n))>>

IncomingOrders ==
    {[ep |-> "orders", role |-> role,
      query |-> [dateRange |-> d, page |-> p, limit |-> l, status |-> s]] :
        role \in Roles, d \in {<<>>, <<"">>},
        p \in {<<>>, Chars(2), Chars(0)},
        l \in {<<>>, Chars(1), Chars(2), Chars(0), <<JsString(<<"-", "1">>)>>,
               <<JsString(<<"a", "b", "c">>)>>},
        s \in {<<>>, <<"Placed">>, <<"Bogus">>}}

NextOrders ==
    \/ \E m \in IncomingOrders : Receive("r1", m.ep, m.role, m.query)
    \/ OrdersFind("r1")
    \/ OrdersCount("r1")
    \/ \E u \in UserIds : PlaceOrder(u, D5)
    \/ \E o \in orders : AdvanceStatus(o)
    \/ Tick

SpecOrders == Init /\ [][NextOrders]_vars

(***************************************************************************)
(* SpecConcurrent: two requests in flight at once.                         *)
(***************************************************************************)
Slots == {"r1", "r2"}

IncomingConcurrent ==
    {[ep |-> ep, role |-> role, query |-> NoQuery] :
        ep \in {"summary", "orders-chart", "orders"}, role \in Roles}
    \cup {[ep |-> "orders-chart", role |-> "admin",
           query |-> [NoQuery EXCEPT !.dateRange = <<"all">>]]}

InitConcurrent == InitWith({Order(2, "u2", D5, "Placed", 61)}, Slots)

NextConcurrent ==
    \/ \E r \in Slots : \E m \in IncomingConcurrent : Receive(r, m.ep, m.role, m.query)
    \/ \E r \in Slots : SummaryCount(r)
    \/ \E r \in Slots : SummaryRevenue(r)
    \/ \E r \in Slots : SummaryUsers(r)
    \/ \E r \in Slots : SummaryStatus(r)
    \/ \E r \in Slots : ChartAggregate(r)
    \/ \E r \in Slots : OrdersFind(r)
    \/ \E r \in Slots : OrdersCount(r)
    \/ PlaceOrder("u1", D5)
    \/ \E o \in orders : AdvanceStatus(o)

SpecConcurrent == InitConcurrent /\ [][NextConcurrent]_vars

(***************************************************************************)
(* SpecRevenue: /summary over a collection nobody writes to, with totals   *)
(* that are no multiples of a cent.                                        *)
(***************************************************************************)
\* 10.005, 19.999, 1.005 and 15.01 as the doubles nearest to them.
D10005 == DFromHex(<<4, 0, 2, 8, 15, 5, 12, 2, 8, 15, 5, 12, 3>>, 3)

D19999 == DFromHex(<<3, 15, 15, 11, 14, 7, 6, 12, 8, 11, 4, 3, 9>>, 4)

D1005 == DFromHex(<<0, 1, 4, 7, 10, 14, 1, 4, 7, 10, 14, 1, 4>>, 0)

D1501 == DFromHex(<<14, 0, 5, 1, 14, 11, 8, 5, 1, 14, 11, 8, 5>>, 3)

RevenuePool == {Order(1, "u1", D10005, "Placed", 61),
                Order(2, "u2", D5, "Preparing", 62),
                Order(3, "u1", DZero, "Delivered", 62),
                Order(4, "u2", D19999, "Delivered", 0),
                Order(5, "u2", D1005, "Placed", 66)}

IncomingRevenue ==
    {[ep |-> "summary", role |-> "admin", query |-> [NoQuery EXCEPT !.dateRange = d]] :
        d \in {<<>>, <<"today">>, <<"all">>}}

InitRevenue == InitWith(RevenuePool, {"r1"})

NextRevenue ==
    \/ \E m \in IncomingRevenue : Receive("r1", m.ep, m.role, m.query)
    \/ SummaryCount("r1")
    \/ SummaryRevenue("r1")
    \/ SummaryUsers("r1")
    \/ SummaryStatus("r1")

SpecRevenue == InitRevenue /\ [][NextRevenue]_vars

(***************************************************************************)
(* The properties.                                                         *)
(***************************************************************************)
\* The awaits of each handler.
QueriesOf(ep) == CASE ep = "summary" -> 4
                   [] ep = "orders-chart" -> 1
                   [] ep = "orders" -> 2
                   [] OTHER -> 0

Min(a, b) == IF a < b THEN a ELSE b

Max(a, b) == IF a > b THEN a ELSE b

\* C1: at each of the three endpoints a request of a caller whose role is
\* not "admin" has ended with status 403 and the body
\* {message: "Admin access required"}, and has issued no query to the store.
NonAdminForbidden ==
    \A r \in DOMAIN req :
        (req[r].pc # "idle" /\ req[r].role # "admin") =>
            /\ req[r].pc = "done"
            /\ req[r].res = [status |-> 403,
                             body |-> [message |-> "Admin access required"]]
            /\ req[r].nq = 0
            /\ req[r].nres = 1

NonAdminForbiddenWitness ==
    \E r \in DOMAIN req :
        /\ req[r].role = "customer" /\ req[r].ep = "orders" /\ req[r].pc = "done"
        /\ req[r].res.status = 403
        /\ orders # {}

\* C2: in every successful /summary response
\* completed + placed + preparing <= totalOrders.
StatusCountsWithinTotal ==
    \A r \in DOMAIN req :
        (req[r].ep = "summary" /\ req[r].res.status = 200) =>
            LET b == req[r].res.body
            IN  b.orderStatus.completed + b.orderStatus.placed
                  + b.orderStatus.preparing <= b.summary.totalOrders

\* C3: in every successful /orders response whose limit parses to an
\* integer, totalPages is the integer ceil(totalOrders / limit), and it is 0
\* when totalOrders is 0.
TotalPagesIsCeiling ==
    \A r \in DOMAIN req :
        (/\ req[r].ep = "orders" /\ req[r].res.status = 200
         /\ parseInt(Limit(req[r])).k = "int") =>
            LET p == req[r].res.body.pagination
                l == parseInt(Limit(req[r])).v
                t == p.totalOrders
                n == p.totalPages.v
            IN  /\ p.totalPages.k = "int"
                /\ t = 0 => n = 0
                /\ l > 0 => (n - 1) * l < t /\ t <= n * l
                /\ l < 0 => (n - 1) * l > t /\ t >= n * l

\* C4: the orders a successful find of /orders gives, for a page and a limit
\* that parse to integers, are the documents after the first (page-1)*limit
\* of the matching orders in an order descending in createdAt, limit of them
\* at most.
OrdersIsPageSlice ==
    [][\A r \in DOMAIN req :
         (/\ req[r].pc = "orders_find" /\ req'[r].pc = "orders_count"
          /\ parseInt(Page(req[r])).k = "int" /\ parseInt(Limit(req[r])).k = "int") =>
             LET limit == parseInt(Limit(req[r])).v
                 skip  == (parseInt(Page(req[r])).v - 1) * limit
                 M     == {o \in orders :
                             /\ o.createdAt >= req[r].startDate
                             /\ \/ req[r].query.status \in {<<>>, <<"all">>}
                                \/ req[r].query.status = <<o.status>>}
                 k     == Min(limit, Max(0, Cardinality(M) - skip))
             IN  \E f \in Orderings(M) :
                    /\ \A i \in 1..(Cardinality(M) - 1) :
                          f[i].createdAt >= f[i + 1].createdAt
                    /\ req'[r].orders = [i \in 1..k |-> populate(f[skip + i], users)]
      ]_vars

\* C5: the chartData a successful /orders-chart sends is strictly
\* increasing in its date keys, has one point for each day with a matching
\* order and no other, and each point counts the matching orders of its day;
\* the status is 200 also when no order matches.
ChartIsDailyCount ==
    [][\A r \in DOMAIN req :
         (/\ req[r].pc = "chart_aggregate" /\ req'[r].pc = "done"
          /\ req'[r].nfail = 0) =>
             LET chart == req'[r].res.body.chartData
                 M     == {o \in orders : o.createdAt >= req[r].startDate}
                 days  == {o.createdAt \div DayTicks : o \in M}
             IN  /\ req'[r].res.status = 200
                 /\ \A i \in 1..(Len(chart) - 1) :
                       StringLess(chart[i].date, chart[i + 1].date)
                 /\ Len(chart) = Cardinality(days)
                 /\ \A d \in days : \E i \in 1..Len(chart) :
                       /\ chart[i].date = dateToString(d * DayTicks)
                       /\ chart[i].orders =
                            Cardinality({o \in M : o.createdAt \div DayTicks = d})
      ]_vars

ChartIsDailyCountWitness ==
    \E r \in DOMAIN req :
        /\ req[r].ep = "orders-chart" /\ req[r].res.status = 200
        /\ Len(req[r].res.body.chartData) >= 2
        /\ \E i \in 1..Len(req[r].res.body.chartData) :
              req[r].res.body.chartData[i].orders >= 2

\* C6: a request one of whose queries failed has ended, after that one
\* failure, with exactly one response: status 500 and the body
\* {message: "Server error", error: <the error>} and nothing else; and only
\* such a request is answered 500.
FailureIsOneServerError ==
    \A r \in DOMAIN req :
        /\ req[r].nfail <= 1
        /\ req[r].nres <= 1
        /\ req[r].nq <= QueriesOf(req[r].ep)
        /\ req[r].nfail = 1 =>
              /\ req[r].pc = "done"
              /\ req[r].nres = 1
              /\ req[r].res.status = 500
              /\ DOMAIN req[r].res.body = {"message", "error"}
              /\ req[r].res.body.message = "Server error"
              /\ req[r].res.body.error \in
                    StoreErrors \cup {"Skip value must be non-negative", "Failed to parse"}
        /\ req[r].res.status = 500 => req[r].nfail = 1
        /\ req[r].res.status = 200 => req[r].nq = QueriesOf(req[r].ep)

FailureIsOneServerErrorWitness ==
    \E r \in DOMAIN req :
        /\ req[r].ep = "summary" /\ req[r].nfail = 1 /\ req[r].nq = 3
        /\ req[r].res.status = 500
        /\ orders # {}

\* 2^scale times the sum of the totals of a set of orders, nothing rounded
\* (no total has a bit below 2^-scale).
RECURSIVE ExactSum(_, _)
ExactSum(S, scale) ==
    IF S = {} THEN <<>>
    ELSE LET o == CHOOSE x \in S : TRUE
         IN  BAdd(BShl(o.total.m, o.total.e + scale), ExactSum(S \ {o}, scale))

\* C7: the totalRevenue of a successful /summary is a number of two decimals
\* (n hundredths) within half a hundredth of the sum of the totals of the
\* orders created at or after the start date, which totalOrders counts;
\* 19.999 gives 20.00, and 10.005, 5.00 and 0 give 3 orders and 15.01.
RevenueIsRoundedSum ==
    \A r \in DOMAIN req :
        (req[r].ep = "summary" /\ req[r].res.status = 200) =>
            LET s    == req[r].res.body.summary
                d    == req[r].query.dateRange
                from == IF d = <<"all">> THEN 0
                        ELSE IF d = <<>> THEN now - 7 * DayTicks
                        ELSE now - ((now + LocalOffset) % DayTicks)
                M    == {o \in orders : o.createdAt >= from}
                n    == toFixed(s.totalRevenue)
                ExactScale == 60
                sum  == BMulSmall(ExactSum(M, ExactScale), 200)
            IN  /\ s.totalOrders = Cardinality(M)
                /\ parseFloat(n) = s.totalRevenue
                /\ BCmp(BShl(BFromInt(2 * n + 1), ExactScale), sum) >= 0
                /\ BCmp(BShl(BFromInt(2 * n), ExactScale),
                        BAdd(sum, BShl(<<1>>, ExactScale))) <= 0
                /\ M = {} => s.totalRevenue = DZero
                /\ {o.total : o \in M} = {D19999} /\ Cardinality(M) = 1 =>
                      s.totalRevenue = DFromInt(20)
                /\ {o.total : o \in M} = {D10005, D5, DZero} /\ Cardinality(M) = 3 =>
                      s.totalRevenue = D1501

RevenueIsRoundedSumWitness ==
    \E r \in DOMAIN req :
        /\ req[r].ep = "summary" /\ req[r].res.status = 200
        /\ req[r].query.dateRange = <<>>
        /\ {o.total : o \in orders} = {D10005, D5, DZero}
        /\ req[r].res.body.summary.totalOrders = 3
        /\ req[r].res.body.summary.totalRevenue = D1501

\* What an admin's request that has just arrived holds as its start date,
\* and what a count of /summary or /orders then counts; absentIsAllTime says
\* how a request without dateRange is read.
DateRangeSteps(absentIsAllTime) ==
    \A r \in DOMAIN req :
        LET d       == req'[r].query.dateRange
            allTime == \/ d # <<>> /\ d[1] \notin {"today", "7days"}
                       \/ d = <<>> /\ absentIsAllTime
        IN  /\ (/\ req[r].pc \in {"idle", "done"}
                /\ req'[r].pc \in {"summary_count", "chart_aggregate", "orders_find"}) =>
                  /\ allTime => req'[r].startDate = 0
                  /\ d = <<"today">> =>
                        /\ req'[r].startDate <= now
                        /\ now - req'[r].startDate < DayTicks
                        /\ (req'[r].startDate + LocalOffset) % DayTicks = 0
                  /\ (d = <<"7days">> \/ (d = <<>> /\ ~absentIsAllTime)) =>
                        req'[r].startDate = now - 7 * DayTicks
            /\ (req[r].pc = "summary_count" /\ req'[r].pc = "summary_revenue"
                /\ allTime) =>
                  req'[r].totalOrders = Cardinality(orders)
            /\ (req[r].pc = "orders_count" /\ req'[r].res.status = 200
                /\ allTime /\ req[r].query.status = <<>>) =>
                  req'[r].res.body.pagination.totalOrders = Cardinality(orders)

\* C8 as stated: every dateRange other than "today" and "7days", an absent
\* one included, resolves to the epoch origin, and a request with it counts
\* every order of the store; "today" resolves to local midnight of the
\* current day and "7days" to the current instant less 7 days.
DateRangeAbsentIsAllTime == [][DateRangeSteps(TRUE)]_vars

\* C8 as amended: every dateRange that is present and is not "today" or
\* "7days" resolves to the epoch origin, and a request with it counts every
\* order of the store; "today" resolves to local midnight of the current day;
\* "7days", and an absent dateRange (the handlers' default), to the current
\* instant less 7 days.
DateRangeResolved == [][DateRangeSteps(FALSE)]_vars

DateRangeResolvedWitness ==
    \E r \in DOMAIN req :
        /\ req[r].pc = "summary_revenue"
        /\ req[r].query.dateRange = <<"30days">>
        /\ req[r].totalOrders = Cardinality(orders)
        /\ \E o \in orders : o.createdAt < now - 7 * DayTicks

\* C9: a step of a handler leaves the Order and User collections as they
\* are and changes the record of no request but its own.
HandlersReadOnly ==
    [][req' # req =>
         /\ orders' = orders
         /\ users' = users
         /\ \E r \in DOMAIN req : \A s \in DOMAIN req \ {r} : req'[s] = req[s]
      ]_vars

HandlersReadOnlyWitness ==
    /\ req["r1"].pc = "summary_users"
    /\ req["r2"].pc = "chart_aggregate"
    /\ req["r2"].startDate # req["r1"].startDate
    /\ writes = 1

\* C10: the figures of one response describe one set of orders: in a
\* successful /summary no more users are active than orders are counted, and
\* no revenue or user comes with no order; a successful /orders with a page
\* >= 1 and a limit >= 1 returns min(limit, max(0, totalOrders - skip))
\* orders.
SnapshotConsistent ==
    \A r \in DOMAIN req :
        /\ (req[r].ep = "summary" /\ req[r].res.status = 200) =>
              LET s == req[r].res.body.summary
              IN  /\ s.activeUsers <= s.totalOrders
                  /\ s.totalOrders = 0 => s.totalRevenue = DZero
        /\ (/\ req[r].ep = "orders" /\ req[r].res.status = 200
            /\ parseInt(Page(req[r])).k = "int" /\ parseInt(Page(req[r])).v >= 1
            /\ parseInt(Limit(req[r])).k = "int" /\ parseInt(Limit(req[r])).v >= 1) =>
              LET b     == req[r].res.body
                  limit == b.pagination.limit.v
                  skip  == (b.pagination.currentPage.v - 1) * limit
              IN  Len(b.orders) = Min(limit, Max(0, b.pagination.totalOrders - skip))

====
